---- MODULE Spec2Model ----
(***************************************************************************)
(* Udyoga Mitra: the hosted store (profiles, student_profiles,             *)
(* employer_profiles, jobs, job_skills, job_requests, student_skills and   *)
(* the row-level policies on job_requests), the page that decides what is  *)
(* shown (Index), the profile wizard (ProfileSetup) and the two dashboards *)
(* that read and write the store (StudentDashboard, EmployerDashboard).    *)
(*                                                                         *)
(* Every store call of a handler is one atomic step of the store.  A       *)
(* handler that awaits a second store call after the first (the read that  *)
(* precedes the insert of sendJobRequest, the refresh that follows a       *)
(* write) is split at that await, because the dashboards of the other      *)
(* users and further clicks on the same dashboard run in between.          *)
(***************************************************************************)
EXTENDS Integers, Sequences, FiniteSets, TLC

(***************************************************************************)
(* Bounds of the model.                                                    *)
(***************************************************************************)
InitialJobs == 1    \* jobs the store holds at the start
MaxJobs == 2        \* job ids ever given out
MaxRequests == 2    \* request ids ever given out
MaxInflight == 2    \* sendJobRequest calls of one dashboard awaiting their insert

\* The cast: one student and one employer, each with a dashboard open.
Viewer == <<"student", 1>>
Owner == <<"employer", 1>>
Students == {Viewer}
Employers == {Owner}
JobIds == 1..MaxJobs
RequestIds == 1..MaxRequests

\* null of a uuid column (a user id) and of a job id
null == <<>>
NoJob == 0

(***************************************************************************)
(* Strings are sequences of characters, so that toLowerCase and includes   *)
(* are computed and not assumed.                                           *)
(***************************************************************************)
DataEntry == <<"D", "a", "t", "a", " ", "E", "n", "t", "r", "y">>
dataEntry == <<"d", "a", "t", "a", " ", "e", "n", "t", "r", "y">>
Typing == <<"T", "y", "p", "i", "n", "g">>
Data == <<"D", "a", "t", "a">>

\* String.prototype.toLowerCase, one character
toLowerCaseChar(c) ==
    CASE c = "A" -> "a"
      [] c = "D" -> "d"
      [] c = "E" -> "e"
      [] c = "G" -> "g"
      [] c = "I" -> "i"
      [] c = "N" -> "n"
      [] c = "P" -> "p"
      [] c = "R" -> "r"
      [] c = "T" -> "t"
      [] c = "Y" -> "y"
      [] OTHER -> c

\* a conversion that stops after the first character
toLowerCaseFirst(str) ==
    [i \in 1..Len(str) |-> IF i = 1 THEN toLowerCaseChar(str[i]) ELSE str[i]]

toLowerCase(str) == [i \in 1..Len(str) |-> toLowerCaseChar(str[i])]

\* String.prototype.toUpperCase, one character
toUpperCaseChar(c) ==
    CASE c = "a" -> "A"
      [] c = "d" -> "D"
      [] c = "e" -> "E"
      [] c = "g" -> "G"
      [] c = "i" -> "I"
      [] c = "n" -> "N"
      [] c = "p" -> "P"
      [] c = "r" -> "R"
      [] c = "t" -> "T"
      [] c = "y" -> "Y"
      [] OTHER -> c

toUpperCase(str) == [i \in 1..Len(str) |-> toUpperCaseChar(str[i])]

\* String.prototype.includes: sub occurs in str as a contiguous substring
includes(str, sub) ==
    \E k \in 0..(Len(str) - Len(sub)) :
        \A i \in 1..Len(sub) : str[k + i] = sub[i]

\* Array.prototype.includes
arrayIncludes(list, x) == \E i \in 1..Len(list) : list[i] = x

\* a toggle that appends without looking whether the skill is selected
handleSkillToggleAppend(prev, skill) == Append(prev, skill)

\* handleSkillToggle, the function given to the state setter (the same in
\* ProfileSetup and in EmployerDashboard): prev.includes(skill) ?
\* prev.filter(s => s !== skill) : [...prev, skill]
handleSkillToggle(prev, skill) ==
    IF arrayIncludes(prev, skill)
    THEN SelectSeq(prev, LAMBDA s : s # skill)
    ELSE Append(prev, skill)

\* the elements of a list
Elements(list) == {list[i] : i \in 1..Len(list)}

(***************************************************************************)
(* The skills table (id, name).  The rows are the store's, not the code's: *)
(* the names above give two that differ in case only, one that is a        *)
(* substring of another, and one unrelated to the rest.                    *)
(***************************************************************************)
skills == (1 :> DataEntry) @@ (2 :> dataEntry) @@ (3 :> Typing) @@ (4 :> Data)
SkillIds == DOMAIN skills

\* Enums of the schema
job_status == {"active", "matched", "completed", "cancelled"}
request_status == {"pending", "accepted", "rejected"}

\* What the store does with the rows that reference a deleted jobs row
\* (job_requests_job_id_fkey, job_skills_job_id_fkey): the foreign keys are
\* declared, their ON DELETE action is the schema's.
OnDeleteActions == {"no_action", "cascade", "set_null"}

\* the contact fields of the job form: neither is required, an empty field
\* is stored as the empty string
OwnerEmail == "owner@shop.example"
OwnerWhatsapp == "+91 98765 43210"
ContactEmails == {"", OwnerEmail}
WhatsappNumbers == {"", OwnerWhatsapp}
\* the two contact fields as the job form is submitted
JobFormContacts == ContactEmails \X WhatsappNumbers

VARIABLES
    jobs,               \* table jobs: rows [id, employer_id, status, contact_email,
                        \*                   whatsapp_number, matched_student_id]
    job_skills,         \* table job_skills: rows [job_id, skill_id]
    job_requests,       \* table job_requests: rows [id, job_id, student_id, status]
    student_skills,     \* table student_skills: rows [student_id, skill_id]
    employer_profiles,  \* table employer_profiles: the ids that have a row
    onDelete,           \* the schema's ON DELETE action of the two foreign keys to jobs
    nextJobId,          \* ids are never reused
    nextRequestId,
    student,            \* StudentDashboard state, per student
    employer,           \* EmployerDashboard state, per employer
    requestLog,         \* history: each request as inserted, and who inserted it
    last,               \* history: the step taken last
    profiles,           \* table profiles: rows [id, user_type, created_at]
    student_profiles,   \* table student_profiles: the ids that have a row
    index,              \* Index state of one browser
    setup,              \* the handleSubmit of ProfileSetup that is running, if any
    reply,              \* history: what the store answered to the last direct call
    wizard              \* ProfileSetup state: the instance that is mounted

store == <<jobs, job_skills, job_requests, student_skills, employer_profiles,
           onDelete, nextJobId, nextRequestId>>
accountVars == <<profiles, student_profiles, index, setup, reply, wizard>>
vars == <<jobs, job_skills, job_requests, student_skills, employer_profiles,
          onDelete, nextJobId, nextRequestId, student, employer,
          requestLog, last, profiles, student_profiles, index, setup, reply,
          wizard>>

(***************************************************************************)
(* Toast descriptions                                                      *)
(***************************************************************************)
NoToast == "none"
ToastAlreadyApplied == "You have already applied for this job"
ToastApplyFailed == "Failed to apply for job"
ToastApplied == "Your application has been sent! Check your inbox for updates."
ToastAlreadySent == "Job request already sent to this student"
ToastSendFailed == "Failed to send job request"
ToastSent == "Job request sent to student!"
ToastNoJobSelected == "No job selected"
ToastFetchJobsFailed == "Failed to fetch jobs"
ToastAcceptFailed == "Failed to accept job request"
ToastAccepted == "Job request accepted! The recruiter will be notified."
ToastRejectFailed == "Failed to reject job request"
ToastRejected == "Job request rejected."
ToastUpdateFailed == "Failed to update request"
ToastUpdated == "Request updated successfully"
ToastDeleteFailed == "Failed to delete job"
ToastDeleted == "Job deleted successfully"
ToastFillRequired == "Please fill in all required fields"
ToastCreateFailed == "Failed to create job"
ToastPosted == "Job posted successfully!"
ToastMatchingFailed == "Failed to fetch matching students"

(***************************************************************************)
(* Rows and queries of the store                                           *)
(***************************************************************************)
JobExists(id) == \E j \in jobs : j.id = id

\* job.job_skills?.map(js => js.skills?.name).filter(Boolean)
jobSkills(jobId) == {skills[l.skill_id] : l \in {x \in job_skills : x.job_id = jobId}}

\* data?.map(item => item.skills?.name).filter(Boolean) of fetchStudentSkills
studentSkillNames(s) ==
    {skills[l.skill_id] : l \in {x \in student_skills : x.student_id = s}}


(***************************************************************************)
(* Row-level security of job_requests (the migration).  Only these         *)
(* policies exist, and RLS is enabled: what no policy allows is refused.   *)
(***************************************************************************)
OwnsJob(uid, jobId) == \E j \in jobs : j.id = jobId /\ j.employer_id = uid

\* FOR INSERT WITH CHECK: "Employers can send job requests"
RlsInsert(uid, row) == OwnsJob(uid, row.job_id)

\* FOR SELECT USING: the student's own requests, the requests for the employer's jobs
RlsSelect(uid, row) == row.student_id = uid \/ OwnsJob(uid, row.job_id)

\* a table whose updates no policy restricts
RlsUpdateAnyone(uid, row) == TRUE

\* FOR UPDATE USING: the student's own requests, the requests for the employer's jobs
RlsUpdate(uid, row) == row.student_id = uid \/ OwnsJob(uid, row.job_id)

\* job_requests_job_id_fkey on insert: the referenced jobs row must exist
FkInsert(row) == JobExists(row.job_id)

\* a row inserted without a status
NewRequestNoStatus(jobId, studentId) ==
    [id |-> nextRequestId, job_id |-> jobId, student_id |-> studentId,
     status |-> "none"]

NewRequest(jobId, studentId) ==
    [id |-> nextRequestId, job_id |-> jobId, student_id |-> studentId,
     status |-> "pending"]

\* supabase.from('job_requests').insert(row) as uid: whether the store takes it
InsertAccepted(uid, row, netOk) == netOk /\ RlsInsert(uid, row) /\ FkInsert(row)

\* supabase.from('job_requests').update({status}).eq('id', requestId) as uid:
\* the rows the update reaches.  Nothing in the statement or in the policies
\* looks at the status the row has.
UpdateTargets(uid, requestId) ==
    {r \in job_requests : r.id = requestId /\ RlsUpdate(uid, r)}

\* what an update that also answered the other requests of the job would do
UpdateStatusWholeJob(uid, requestId, status) ==
    {IF \E x \in UpdateTargets(uid, requestId) : x.job_id = r.job_id
     THEN [r EXCEPT !.status = status] ELSE r : r \in job_requests}

\* update({status}).eq('id', requestId): the status of the rows reached, and
\* nothing else of any row
UpdateStatus(uid, requestId, status) ==
    {IF r \in UpdateTargets(uid, requestId) THEN [r EXCEPT !.status = status] ELSE r
        : r \in job_requests}

\* The step taken last: the handler and who ran it; net, whether the store
\* answered every call of the step (no transport error); ok, whether the
\* step's write took effect; the toast shown; the job, student and request the
\* step was about; prev, the status a request had before the step set it;
\* links and requests, how many job_skills and job_requests rows referenced
\* the job before the step deleted it; skills, the skill names selected in
\* the form the step submitted.
Step(op, user, net, ok, toast) ==
    [op |-> op, user |-> user, net |-> net, ok |-> ok, toast |-> toast,
     job |-> NoJob, student |-> null, request |-> 0, prev |-> "none",
     links |-> 0, requests |-> 0, skills |-> {}]

(***************************************************************************)
(* Accounts, the Index page and ProfileSetup                               *)
(***************************************************************************)
MaxChecks == 2      \* checkUserProfile calls of one page awaiting their answer
MaxProfiles == 3    \* profiles rows ever written

Accounts == Students \cup Employers

\* user.user_metadata?.user_type || 'student': what the account signed up as
signupUserType(a) == a[1]

ToastProfileCreated == "Profile created successfully!"
ToastProfileFailed == "Failed to create profile. Please try again."

\* Index as constructed: nobody known to be signed in, getSession not yet
\* answered, no checkUserProfile running
IndexMounted ==
    [user |-> null, hasProfile |-> "null", userType |-> "null", isLoading |-> TRUE,
     sessionChecked |-> FALSE, checks |-> {}]

\* ProfileSetup as constructed: the first step, nothing selected
WizardMounted == [currentStep |-> 1, isSubmitting |-> FALSE, selectedSkills |-> <<>>]

\* no handleSubmit is running
SetupIdle == [pc |-> "idle", user |-> null, userType |-> "null", selectedSkills |-> {}]

NoReply == [op |-> "none", by |-> null, rows |-> {}, status |-> "none", before |-> {}]

\* the accounts whose onboarding is long done, as the dashboards assume
SettledAccounts ==
    /\ profiles = {[id |-> Viewer, user_type |-> "student", created_at |-> 1],
                   [id |-> Owner, user_type |-> "employer", created_at |-> 2]}
    /\ student_profiles = Students
    /\ index = IndexMounted
    /\ setup = SetupIdle
    /\ wizard = WizardMounted
    /\ reply = NoReply

\* what Index renders, of its state
ScreenOf(ix) ==
    IF ix.isLoading THEN "Loading"
    ELSE IF ix.user = null THEN "AuthForm"
    ELSE IF ix.hasProfile = "false" THEN "ProfileSetup"
    ELSE IF ix.hasProfile = "true" /\ ix.userType = "student"
    THEN "StudentDashboard"
    ELSE IF ix.hasProfile = "true" /\ ix.userType = "employer"
    THEN "EmployerDashboard"
    ELSE "SettingUp"

Screen == ScreenOf(index)

\* The ProfileSetup instance after a render of Index: the instance there was
\* when ProfileSetup was rendered before and is rendered again, and one newly
\* constructed otherwise (when it is not rendered there is none, which is
\* written as the constructed one).
Rendered(ix) ==
    IF Screen = "ProfileSetup" /\ ScreenOf(ix) = "ProfileSetup" THEN wizard
    ELSE WizardMounted

\* a checkUserProfile call that has not yet reached the store
NewCheck(userId) == [userId |-> userId, data |-> "unsent"]

\* supabase.auth.getSession().then(...)
getSession ==
    /\ ~index.sessionChecked
    /\ \E session \in {null} \cup Accounts :
        /\ index.user # null => session = index.user
        /\ session # null => Cardinality(index.checks \cup {NewCheck(session)}) <= MaxChecks
        /\ index' = IF session # null
                    THEN [index EXCEPT !.user = session, !.sessionChecked = TRUE,
                                       !.checks = @ \cup {NewCheck(session)}]
                    ELSE [index EXCEPT !.user = null, !.sessionChecked = TRUE,
                                       !.isLoading = FALSE]
        /\ last' = Step("getSession", session, TRUE, TRUE, NoToast)
    /\ wizard' = Rendered(index')
    /\ UNCHANGED <<store, student, employer, requestLog, profiles, student_profiles,
                   setup, reply>>

\* the listener given to onAuthStateChange, called with a session
AuthStateChanged(session) ==
    IF session # null
    THEN [index EXCEPT !.user = session, !.checks = @ \cup {NewCheck(session)}]
    ELSE [index EXCEPT !.user = null, !.hasProfile = "null", !.userType = "null"]

\* The listener called with a session: the session found when the page
\* subscribes, a sign-in through AuthForm, or a later event of the session
\* that is signed in (its token refreshed, its user updated).
onAuthStateChange(session) ==
    /\ index.user \in {null, session}
    /\ Cardinality(index.checks \cup {NewCheck(session)}) <= MaxChecks
    /\ index' = AuthStateChanged(session)
    /\ last' = Step("onAuthStateChange", session, TRUE, TRUE, NoToast)
    /\ wizard' = Rendered(index')
    /\ UNCHANGED <<store, student, employer, requestLog, profiles, student_profiles,
                   setup, reply>>

\* handleSignOut, the onSignOut of both dashboards: supabase.auth.signOut()
\* ends the session and the listener is called with none
handleSignOut ==
    /\ Screen \in {"StudentDashboard", "EmployerDashboard"}
    /\ index' = AuthStateChanged(null)
    /\ last' = Step("handleSignOut", index.user, TRUE, TRUE, NoToast)
    /\ wizard' = Rendered(index')
    /\ UNCHANGED <<store, student, employer, requestLog, profiles, student_profiles,
                   setup, reply>>

\* from('profiles').select('user_type').eq('id', userId).single(): the
\* user_type of the row when exactly one row answers, no data (PGRST116)
\* otherwise
ProfileOf(userId) ==
    LET rows == {p \in profiles : p.id = userId}
    IN  IF Cardinality(rows) = 1 THEN (CHOOSE p \in rows : TRUE).user_type ELSE "none"

\* checkUserProfile, up to the answer of the store
checkUserProfileSelect(c) ==
    /\ c \in index.checks
    /\ c.data = "unsent"
    /\ \E ok \in BOOLEAN :
        /\ index' = [index EXCEPT !.checks = (@ \ {c}) \cup
                        {[c EXCEPT !.data = IF ok THEN ProfileOf(c.userId) ELSE "error"]}]
        /\ last' = Step("checkUserProfileSelect", c.userId, ok, ok, NoToast)
    /\ UNCHANGED <<store, student, employer, requestLog, profiles, student_profiles,
                   setup, reply, wizard>>

\* checkUserProfile, from the answer on
checkUserProfile(c) ==
    /\ c \in index.checks
    /\ c.data # "unsent"
    /\ index' = [index EXCEPT
                    !.hasProfile = IF c.data \in {"error", "none"} THEN "false" ELSE "true",
                    !.userType = IF c.data \in {"error", "none"} THEN "null" ELSE c.data,
                    !.isLoading = FALSE,
                    !.checks = @ \ {c}]
    /\ last' = Step("checkUserProfile", c.userId, c.data # "error", c.data # "error",
                    NoToast)
    /\ wizard' = Rendered(index')
    /\ UNCHANGED <<store, student, employer, requestLog, profiles, student_profiles,
                   setup, reply>>

\* the catch block of handleSubmit writes nothing to the store: the rows of
\* the earlier inserts stay
AfterFailedInsertRollback(rows, uid) == {r \in rows : r.id # uid}

AfterFailedInsert(rows, uid) == rows

\* profiles.id is the column the foreign keys of student_profiles and
\* employer_profiles reference, so no two rows hold the same id
ProfileInsertAcceptedTwice(uid, ok) == ok

ProfileInsertAccepted(uid, ok) == ok /\ \A p \in profiles : p.id # uid

\* the end of a handleSubmit that met no error: the toast, then onComplete(),
\* which is handleProfileComplete of the render that showed the form
Completed(op, net) ==
    /\ index' = [index EXCEPT !.checks = @ \cup {NewCheck(setup.user)}]
    /\ setup' = SetupIdle
    /\ wizard' = [wizard EXCEPT !.isSubmitting = FALSE]
    /\ last' = Step(op, setup.user, net, TRUE, ToastProfileCreated)

\* the catch block
Failed(op, net) ==
    /\ index' = index
    /\ setup' = SetupIdle
    /\ wizard' = [wizard EXCEPT !.isSubmitting = FALSE]
    /\ last' = Step(op, setup.user, net, FALSE, ToastProfileFailed)

\* const totalSteps = userType === 'student' ? 3 : 2
totalSteps(userType) == IF userType = "student" THEN 3 ELSE 2

\* a handleNext that counts on without a limit
NextStepUnlimited(currentStep, total) == currentStep + 1

\* handleNext: if (currentStep < totalSteps) setCurrentStep(prev => prev + 1)
NextStep(currentStep, total) ==
    IF currentStep < total THEN currentStep + 1 ELSE currentStep

\* handleBack: if (currentStep > 1) setCurrentStep(prev => prev - 1)
PreviousStep(currentStep) ==
    IF currentStep > 1 THEN currentStep - 1 ELSE currentStep

\* the Next button
handleNext ==
    /\ Screen = "ProfileSetup"
    /\ wizard' = [wizard EXCEPT !.currentStep =
                      NextStep(@, totalSteps(signupUserType(index.user)))]
    /\ last' = Step("handleNext", index.user, TRUE, TRUE, NoToast)
    /\ UNCHANGED <<store, student, employer, requestLog, profiles, student_profiles,
                   index, setup, reply>>

\* the Back button
handleBack ==
    /\ Screen = "ProfileSetup"
    /\ wizard' = [wizard EXCEPT !.currentStep = PreviousStep(@)]
    /\ last' = Step("handleBack", index.user, TRUE, TRUE, NoToast)
    /\ UNCHANGED <<store, student, employer, requestLog, profiles, student_profiles,
                   index, setup, reply>>

\* the checkbox of a skill, on the third step of a student
toggleProfileSkill(skill) ==
    /\ Screen = "ProfileSetup"
    /\ signupUserType(index.user) = "student"
    /\ wizard.currentStep = 3
    /\ wizard' = [wizard EXCEPT !.selectedSkills = handleSkillToggle(@, skill)]
    /\ last' = Step("handleSkillToggle", index.user, TRUE, TRUE, NoToast)
    /\ UNCHANGED <<store, student, employer, requestLog, profiles, student_profiles,
                   index, setup, reply>>

\* handleSubmit, up to the answer of the profiles insert.  "Complete Setup"
\* is rendered on the last step and disabled while isSubmitting; one
\* handleSubmit runs at a time.
handleSubmit(selectedSkills) ==
    /\ Screen = "ProfileSetup"
    /\ wizard.currentStep >= totalSteps(signupUserType(index.user))
    /\ ~wizard.isSubmitting
    /\ setup.pc = "idle"
    /\ Cardinality(profiles) < MaxProfiles
    /\ \E ok \in BOOLEAN :
        LET user == index.user
            userType == signupUserType(user)
            accepted == ProfileInsertAccepted(user, ok)
        IN  /\ profiles' = IF accepted
                           THEN profiles \cup
                                {[id |-> user, user_type |-> userType,
                                  created_at |-> Cardinality(profiles) + 1]}
                           ELSE profiles
            /\ setup' = IF accepted
                        THEN [pc |-> IF userType = "student" THEN "student_profiles"
                                     ELSE "employer_profiles",
                              user |-> user, userType |-> userType,
                              selectedSkills |-> selectedSkills]
                        ELSE SetupIdle
            /\ wizard' = [wizard EXCEPT !.isSubmitting = accepted]
            /\ last' = Step("handleSubmit", user, ok, accepted,
                            IF accepted THEN NoToast ELSE ToastProfileFailed)
    /\ UNCHANGED <<store, student, employer, requestLog, student_profiles, index, reply>>

\* handleSubmit of a student, the student_profiles insert
submitStudentProfile ==
    /\ setup.pc = "student_profiles"
    /\ Cardinality(index.checks \cup {NewCheck(setup.user)}) <= MaxChecks
    /\ \E ok \in BOOLEAN :
        LET accepted == /\ ok
                        /\ setup.user \notin student_profiles
                        /\ \E p \in profiles : p.id = setup.user
        IN  /\ student_profiles' = IF accepted THEN student_profiles \cup {setup.user}
                                   ELSE student_profiles
            /\ profiles' = IF accepted THEN profiles
                           ELSE AfterFailedInsert(profiles, setup.user)
            /\ IF ~accepted THEN Failed("submitStudentProfile", ok)
               ELSE IF setup.selectedSkills # {}
               THEN /\ setup' = [setup EXCEPT !.pc = "skills"]
                    /\ index' = index
                    /\ wizard' = wizard
                    /\ last' = Step("submitStudentProfile", setup.user, TRUE, TRUE, NoToast)
               ELSE Completed("submitStudentProfile", TRUE)
    /\ UNCHANGED <<store, student, employer, requestLog, reply>>

\* from('skills').select('id, name').in('name', selectedSkills): the error
\* is not read, and without data the skills are skipped
submitSkillsSelect ==
    /\ setup.pc = "skills"
    /\ Cardinality(index.checks \cup {NewCheck(setup.user)}) <= MaxChecks
    /\ \E ok \in BOOLEAN :
        IF ok
        THEN /\ setup' = [setup EXCEPT !.pc = "student_skills"]
             /\ index' = index
             /\ wizard' = wizard
             /\ last' = Step("submitSkillsSelect", setup.user, TRUE, TRUE, NoToast)
        ELSE Completed("submitSkillsSelect", FALSE)
    /\ UNCHANGED <<store, student, employer, requestLog, profiles, student_profiles,
                   reply>>

\* handleSubmit of a student, the student_skills insert
submitStudentSkills ==
    /\ setup.pc = "student_skills"
    /\ Cardinality(index.checks \cup {NewCheck(setup.user)}) <= MaxChecks
    /\ \E ok \in BOOLEAN :
        LET skillsData == {id \in SkillIds : skills[id] \in setup.selectedSkills}
            accepted == ok /\ setup.user \in student_profiles
        IN  /\ student_skills' =
                  IF accepted
                  THEN student_skills \cup
                       {[student_id |-> setup.user, skill_id |-> id] : id \in skillsData}
                  ELSE student_skills
            /\ profiles' = IF accepted THEN profiles
                           ELSE AfterFailedInsert(profiles, setup.user)
            /\ IF accepted THEN Completed("submitStudentSkills", TRUE)
               ELSE Failed("submitStudentSkills", ok)
    /\ UNCHANGED <<jobs, job_skills, job_requests, employer_profiles, onDelete,
                   nextJobId, nextRequestId, student, employer, requestLog,
                   student_profiles, reply>>

\* handleSubmit of an employer, the employer_profiles insert
submitEmployerProfile ==
    /\ setup.pc = "employer_profiles"
    /\ Cardinality(index.checks \cup {NewCheck(setup.user)}) <= MaxChecks
    /\ \E ok \in BOOLEAN :
        LET accepted == /\ ok
                        /\ setup.user \notin employer_profiles
                        /\ \E p \in profiles : p.id = setup.user
        IN  /\ employer_profiles' = IF accepted THEN employer_profiles \cup {setup.user}
                                    ELSE employer_profiles
            /\ profiles' = IF accepted THEN profiles
                           ELSE AfterFailedInsert(profiles, setup.user)
            /\ IF accepted THEN Completed("submitEmployerProfile", TRUE)
               ELSE Failed("submitEmployerProfile", ok)
    /\ UNCHANGED <<jobs, job_skills, job_requests, student_skills, onDelete,
                   nextJobId, nextRequestId, student, employer, requestLog,
                   student_profiles, reply>>

(***************************************************************************)
(* StudentDashboard                                                        *)
(***************************************************************************)
\* The state of a dashboard that has just mounted: the first effect has
\* called fetchStudentSkills and fetchJobRequests, neither has answered.
StudentMounted ==
    [jobs |-> {}, jobRequests |-> {}, studentSkills |-> {}, isLoading |-> TRUE,
     pending |-> {"fetchStudentSkills", "fetchJobRequests"}]

\* what a dashboard keeps of a job_requests row it fetched
Snapshot(rows) ==
    {[id |-> r.id, job_id |-> r.job_id, student_id |-> r.student_id,
      status |-> r.status] : r \in rows}

\* variants of hasMatchingSkill that a slip in the filter would give
hasMatchingSkillEvery(jobSkillNames, studentSkillNames_) ==
    \A jobSkill \in jobSkillNames : \E studentSkill \in studentSkillNames_ :
        toLowerCase(studentSkill) = toLowerCase(jobSkill)

hasMatchingSkillCaseSensitive(jobSkillNames, studentSkillNames_) ==
    \E jobSkill \in jobSkillNames : \E studentSkill \in studentSkillNames_ :
        studentSkill = jobSkill

hasMatchingSkillSubstring(jobSkillNames, studentSkillNames_) ==
    \E jobSkill \in jobSkillNames : \E studentSkill \in studentSkillNames_ :
        \/ includes(toLowerCase(studentSkill), toLowerCase(jobSkill))
        \/ includes(toLowerCase(jobSkill), toLowerCase(studentSkill))

\* jobSkills.some(jobSkill => studentSkills.some(studentSkill =>
\*     studentSkill.toLowerCase() === jobSkill.toLowerCase()))
hasMatchingSkill(jobSkillNames, studentSkillNames_) ==
    \E jobSkill \in jobSkillNames : \E studentSkill \in studentSkillNames_ :
        toLowerCase(studentSkill) = toLowerCase(jobSkill)

\* from('jobs').select(*, employer_profiles!inner, job_skills!inner(skills!inner))
\*   .eq('status', 'active')
SelectActiveJobs ==
    {j \in jobs : /\ j.status = "active"
                  /\ j.employer_id \in employer_profiles
                  /\ \E l \in job_skills : l.job_id = j.id}

\* the earlier revision of the filter: every active job whose skills are empty
\* or overlap the student's by substring
matchedJobsPermissive(studentSkillNames_) ==
    {j.id : j \in {x \in jobs :
        /\ x.status = "active"
        /\ x.employer_id \in employer_profiles
        /\ \/ jobSkills(x.id) = {}
           \/ hasMatchingSkillSubstring(jobSkills(x.id), studentSkillNames_)}}

\* data?.filter(job => hasMatchingSkill)
matchedJobs(studentSkillNames_) ==
    {j.id : j \in {x \in SelectActiveJobs :
        hasMatchingSkill(jobSkills(x.id), studentSkillNames_)}}

\* jobs(*, employer_profiles(business_name)) of a job_requests row: the job
\* the row references, null when it references none
JoinedJob(jobId) ==
    IF JobExists(jobId)
    THEN LET j == CHOOSE x \in jobs : x.id = jobId
         IN  [contact_email |-> j.contact_email, whatsapp_number |-> j.whatsapp_number]
    ELSE null

\* what the inbox keeps of a job_requests row it fetched
InboxSnapshot(rows) ==
    {[id |-> r.id, job_id |-> r.job_id, student_id |-> r.student_id,
      status |-> r.status, jobs |-> JoinedJob(r.job_id)] : r \in rows}

\* renderInbox: the channels offered on the card of a request, whatever
\* its status
inboxContactsAnyStatus(request) ==
    IF request.jobs # null
    THEN (IF request.jobs.whatsapp_number # "" THEN {"Contact via WhatsApp"} ELSE {})
         \cup (IF request.jobs.contact_email # "" THEN {"Send Email"} ELSE {})
    ELSE {}

\* renderInbox: the channels offered on the card of a request
inboxContacts(request) ==
    IF request.status = "accepted" /\ request.jobs # null
    THEN (IF request.jobs.whatsapp_number # "" THEN {"Contact via WhatsApp"} ELSE {})
         \cup (IF request.jobs.contact_email # "" THEN {"Send Email"} ELSE {})
    ELSE {}

fetchStudentSkills(s) ==
    /\ "fetchStudentSkills" \in student[s].pending
    /\ \E ok \in BOOLEAN :
        /\ student' = [student EXCEPT ![s] =
              IF ok
              THEN [@ EXCEPT !.studentSkills = studentSkillNames(s),
                             \* the effect on [studentSkills] calls fetchJobs
                             \* when the new list is not empty
                             !.pending = (@ \ {"fetchStudentSkills"}) \cup
                                 (IF studentSkillNames(s) # {} THEN {"fetchJobs"} ELSE {})]
              ELSE [@ EXCEPT !.pending = @ \ {"fetchStudentSkills"}]]
        /\ last' = Step("fetchStudentSkills", s, ok, ok, NoToast)
    /\ UNCHANGED <<accountVars, store, employer, requestLog>>

StudentFetchJobs(s) ==
    /\ "fetchJobs" \in student[s].pending
    /\ \E ok \in BOOLEAN :
        /\ student' = [student EXCEPT ![s] =
              IF student[s].studentSkills = {}
              THEN [@ EXCEPT !.jobs = {}, !.isLoading = FALSE,
                             !.pending = @ \ {"fetchJobs"}]
              ELSE IF ok
              THEN [@ EXCEPT !.jobs = matchedJobs(student[s].studentSkills),
                             !.isLoading = FALSE,
                             !.pending = @ \ {"fetchJobs"}]
              ELSE [@ EXCEPT !.isLoading = FALSE,
                             !.pending = @ \ {"fetchJobs"}]]
        /\ last' = Step("fetchJobs", s, ok, ok,
                         IF student[s].studentSkills # {} /\ ~ok
                         THEN ToastFetchJobsFailed ELSE NoToast)
    /\ UNCHANGED <<accountVars, store, employer, requestLog>>

\* from('job_requests').select(...).eq('student_id', user.id)
StudentFetchJobRequests(s) ==
    /\ "fetchJobRequests" \in student[s].pending
    /\ \E ok \in BOOLEAN :
        /\ student' = [student EXCEPT ![s] =
              IF ok
              THEN [@ EXCEPT !.jobRequests = InboxSnapshot(
                                 {r \in job_requests :
                                     r.student_id = s /\ RlsSelect(s, r)}),
                             !.pending = @ \ {"fetchJobRequests"}]
              ELSE [@ EXCEPT !.pending = @ \ {"fetchJobRequests"}]]
        /\ last' = Step("fetchJobRequests", s, ok, ok, NoToast)
    /\ UNCHANGED <<accountVars, store, employer, requestLog>>


\* handleApplyJob(jobId), from the card of a job of the browse list.  The
\* test for an earlier application reads the local jobRequests list (the
\* card's button is disabled by the same test).
handleApplyJob(s, jobId) ==
    /\ jobId \in student[s].jobs
    /\ nextRequestId <= MaxRequests
    /\ \E netOk \in BOOLEAN :
        LET existing == \E req \in student[s].jobRequests : req.job_id = jobId
            row == NewRequest(jobId, s)
            inserted == ~existing /\ InsertAccepted(s, row, netOk)
        IN  /\ student' = [student EXCEPT ![s] =
                  IF inserted
                  THEN [@ EXCEPT !.pending = @ \cup {"fetchJobRequests"}]
                  ELSE @]
            /\ job_requests' = IF inserted THEN job_requests \cup {row} ELSE job_requests
            /\ nextRequestId' = IF inserted THEN nextRequestId + 1 ELSE nextRequestId
            /\ requestLog' = IF inserted
                             THEN requestLog @@ (row.id :> [by |-> s, job_id |-> jobId,
                                                           student_id |-> s])
                             ELSE requestLog
            /\ last' = [Step("handleApplyJob", s, existing \/ netOk, inserted,
                             IF existing THEN ToastAlreadyApplied
                             ELSE IF inserted THEN ToastApplied
                             ELSE ToastApplyFailed)
                        EXCEPT !.job = jobId, !.student = s,
                               !.request = IF inserted THEN row.id ELSE 0]
    /\ UNCHANGED <<accountVars, jobs, job_skills, student_skills, employer_profiles, onDelete,
                   nextJobId, employer>>

\* the status of the row the update reaches, before the update
StatusBefore(uid, requestId) ==
    IF UpdateTargets(uid, requestId) = {} THEN "none"
    ELSE (CHOOSE r \in UpdateTargets(uid, requestId) : TRUE).status

\* The inbox renders Accept and Reject for the requests whose local status
\* is pending.
StudentRespond(s, requestId, status) ==
    /\ \E req \in student[s].jobRequests : req.id = requestId /\ req.status = "pending"
    /\ \E netOk \in BOOLEAN :
        LET hit == netOk /\ UpdateTargets(s, requestId) # {}
        IN  /\ job_requests' = IF netOk THEN UpdateStatus(s, requestId, status)
                               ELSE job_requests
            /\ student' = [student EXCEPT ![s] =
                  IF netOk
                  THEN [@ EXCEPT !.pending = @ \cup {"fetchJobRequests"}]
                  ELSE @]
            /\ last' = [Step(IF status = "accepted" THEN "handleAcceptJobRequest"
                             ELSE "handleRejectJobRequest", s, netOk, hit,
                             CASE netOk /\ status = "accepted" -> ToastAccepted
                               [] netOk /\ status = "rejected" -> ToastRejected
                               [] ~netOk /\ status = "accepted" -> ToastAcceptFailed
                               [] OTHER -> ToastRejectFailed)
                        EXCEPT !.request = requestId,
                               !.prev = IF hit THEN StatusBefore(s, requestId)
                                        ELSE "none"]
    /\ UNCHANGED <<accountVars, jobs, job_skills, student_skills, employer_profiles, onDelete,
                   nextJobId, nextRequestId, employer, requestLog>>

handleAcceptJobRequest(s, requestId) == StudentRespond(s, requestId, "accepted")

handleRejectJobRequest(s, requestId) == StudentRespond(s, requestId, "rejected")

(***************************************************************************)
(* The browse list alone: the store holds any jobs, skill links and        *)
(* student skills, the student's dashboard mounts and fetches.             *)
(***************************************************************************)
\* the job form as constructed and as handleJobSubmit resets it: of the
\* fields, the three the handler requires and the selected skills
EmptyJobForm == [title |-> "", description |-> "", payRate |-> "", selectedSkills |-> <<>>]

EmployerMounted ==
    [jobs |-> {}, jobRequests |-> {}, matchingStudents |-> {},
     selectedJobForCandidates |-> NoJob, isLoading |-> TRUE,
     pending |-> {"fetchJobs", "fetchJobRequests"}, sending |-> {},
     showJobDialog |-> FALSE, jobForm |-> EmptyJobForm]

NoStep == Step("mount", null, TRUE, TRUE, NoToast)

InitBrowse ==
    /\ \E statuses \in [1..InitialJobs -> job_status] :
         jobs = {[id |-> i, employer_id |-> Owner, status |-> statuses[i],
                  contact_email |-> OwnerEmail, whatsapp_number |-> OwnerWhatsapp,
                  matched_student_id |-> null]
                    : i \in 1..InitialJobs}
    /\ job_skills \in SUBSET [job_id : 1..InitialJobs, skill_id : SkillIds]
    /\ student_skills \in SUBSET [student_id : {Viewer}, skill_id : SkillIds]
    /\ job_requests = {}
    /\ employer_profiles = Employers
    /\ onDelete = [job_requests |-> "no_action", job_skills |-> "no_action"]
    /\ nextJobId = InitialJobs + 1
    /\ nextRequestId = 1
    /\ student = [s \in Students |-> StudentMounted]
    /\ employer = [e \in Employers |-> EmployerMounted]
    /\ requestLog = <<>>
    /\ last = NoStep
    /\ SettledAccounts

NextBrowse ==
    \/ fetchStudentSkills(Viewer)
    \/ StudentFetchJobs(Viewer)
    \/ StudentFetchJobRequests(Viewer)

SpecBrowse == InitBrowse /\ [][NextBrowse]_vars


(***************************************************************************)
(* The matching filter (claims C6 to C9), under SpecBrowse.                *)
(***************************************************************************)
\* two names are the same ignoring case
EqualIgnoringCase(a, b) ==
    /\ Len(a) = Len(b)
    /\ \A i \in 1..Len(a) : toLowerCaseChar(a[i]) = toLowerCaseChar(b[i])

\* one name is a case-insensitive substring or superstring of the other
SubstringIgnoringCase(a, b) ==
    \/ includes(toLowerCase(a), toLowerCase(b))
    \/ includes(toLowerCase(b), toLowerCase(a))

\* the browse list the student sees is the answer of a fetchJobs that succeeded
JobsFetched(s) == last.op = "fetchJobs" /\ last.user = s /\ last.ok

Shown(s, j) == j.id \in student[s].jobs

\* C6, as claimed: for every student skill set S, an active job whose required
\* skill set is empty is shown to the student, matches(S, {}) = true.
C6_EmptyRequirementShown ==
    \A s \in Students : \A j \in jobs :
        (JobsFetched(s) /\ j.status = "active" /\ jobSkills(j.id) = {})
            => Shown(s, j)

\* C6, amended: a job whose required skill set is empty is never shown,
\* whatever the student's skills: matches(S, {}) = false.
C6_EmptyRequirementNeverShown ==
    \A s \in Students : \A j \in jobs :
        jobSkills(j.id) = {} => ~Shown(s, j)

C6_Witness ==
    /\ JobsFetched(Viewer)
    /\ student[Viewer].studentSkills # {}
    /\ \E j \in jobs : j.status = "active" /\ jobSkills(j.id) = {} /\ ~Shown(Viewer, j)

\* C7, as claimed: when some required skill of an active job is a
\* case-insensitive substring or superstring of some skill of the student, the
\* job is shown.
C7_SubstringOverlapShown ==
    \A s \in Students : \A j \in jobs :
        (/\ JobsFetched(s)
         /\ j.status = "active"
         /\ \E a \in jobSkills(j.id) : \E b \in student[s].studentSkills :
                SubstringIgnoringCase(a, b))
            => Shown(s, j)

\* C7, amended: when some required skill of an active job equals some skill of
\* the student ignoring case, the job is shown.
C7_EqualIgnoringCaseShown ==
    \A s \in Students : \A j \in jobs :
        (/\ JobsFetched(s)
         /\ j.status = "active"
         /\ \E a \in jobSkills(j.id) : \E b \in student[s].studentSkills :
                EqualIgnoringCase(a, b))
            => Shown(s, j)

\* shown through a pair of names that differ in case, no pair being identical
C7_Witness ==
    /\ JobsFetched(Viewer)
    /\ \E j \in jobs :
        /\ Shown(Viewer, j)
        /\ jobSkills(j.id) \cap student[Viewer].studentSkills = {}

\* C8: an active job is shown when one of its required skills equals one of
\* the student's ignoring case, also when the student lacks other required
\* skills of the job.
C8_OneEqualSkillSuffices ==
    \A s \in Students : \A j \in jobs :
        (/\ JobsFetched(s)
         /\ j.status = "active"
         /\ \E a \in jobSkills(j.id) : \E b \in student[s].studentSkills :
                EqualIgnoringCase(a, b)
         /\ \E a \in jobSkills(j.id) : \A b \in student[s].studentSkills :
                ~EqualIgnoringCase(a, b))
            => Shown(s, j)

\* student {"Data Entry"}, job {"data entry", "Typing"}
C8_Witness ==
    /\ JobsFetched(Viewer)
    /\ student[Viewer].studentSkills = {DataEntry}
    /\ \E j \in jobs : jobSkills(j.id) = {dataEntry, Typing} /\ Shown(Viewer, j)

\* the jobs of the store with status active whose required skill names meet
\* the student's skill names in a name equal ignoring case
ExactIntersectionJobs(s) ==
    {j.id : j \in {x \in jobs :
        /\ x.status = "active"
        /\ \E a \in jobSkills(x.id) : \E b \in studentSkillNames(s) :
               EqualIgnoringCase(a, b)}}

\* C9: fetchJobs puts a job in the browse list if and only if its status is
\* active and the case-insensitive exact intersection of its required skill
\* names with the student's is not empty; a job with no skill link, and a
\* student with no skill, yield no listing.
C9_StrictVariant ==
    \A s \in Students :
        /\ student[s].jobs \subseteq ExactIntersectionJobs(s)
        /\ JobsFetched(s) => student[s].jobs = ExactIntersectionJobs(s)
        /\ \A j \in jobs : jobSkills(j.id) = {} => ~Shown(s, j)
        /\ studentSkillNames(s) = {} => student[s].jobs = {}

\* a fetch that leaves out an active job whose skills overlap the student's
\* by substring only
C9_Witness ==
    /\ JobsFetched(Viewer)
    /\ \E j \in jobs :
        /\ j.status = "active"
        /\ \E a \in jobSkills(j.id) : \E b \in student[Viewer].studentSkills :
               SubstringIgnoringCase(a, b)
        /\ ~Shown(Viewer, j)


(***************************************************************************)
(* EmployerDashboard                                                       *)
(***************************************************************************)
\* the names the job form offers that the model's skills table also holds
SKILLS_LIST == {DataEntry, Typing}

\* from('jobs').select('*').eq('employer_id', user.id)
EmployerFetchJobs(e) ==
    /\ "fetchJobs" \in employer[e].pending
    /\ \E ok \in BOOLEAN :
        /\ employer' = [employer EXCEPT ![e] =
              [@ EXCEPT !.jobs = IF ok THEN {j.id : j \in {x \in jobs : x.employer_id = e}}
                                 ELSE @,
                        !.isLoading = FALSE,
                        !.pending = @ \ {"fetchJobs"}]]
        /\ last' = Step("fetchJobs", e, ok, ok,
                        IF ok THEN NoToast ELSE ToastFetchJobsFailed)
    /\ UNCHANGED <<accountVars, store, student, requestLog>>

\* fetchJobRequests: the employer's job ids, then the requests for those jobs
EmployerFetchJobRequests(e) ==
    /\ "fetchJobRequests" \in employer[e].pending
    /\ \E okJobs \in BOOLEAN, ok \in BOOLEAN :
        LET employerJobs == IF okJobs THEN {j.id : j \in {x \in jobs : x.employer_id = e}}
                            ELSE {}
        IN  /\ employer' = [employer EXCEPT ![e] =
                  [@ EXCEPT !.jobRequests =
                                IF employerJobs = {} THEN {}
                                ELSE IF ok
                                THEN Snapshot({r \in job_requests :
                                         r.job_id \in employerJobs /\ RlsSelect(e, r)})
                                ELSE @,
                            !.pending = @ \ {"fetchJobRequests"}]]
            /\ last' = Step("fetchJobRequests", e, okJobs /\ ok, okJobs /\ ok, NoToast)
    /\ UNCHANGED <<accountVars, store, student, requestLog>>

\* rpc('get_matching_students', {job_uuid}): the function is the store's, any
\* set of students may come back
fetchMatchingStudents(e, jobId) ==
    /\ jobId \in employer[e].jobs
    /\ \E ok \in BOOLEAN, data \in SUBSET Students :
        /\ employer' = [employer EXCEPT ![e] =
              IF ok
              THEN [@ EXCEPT !.matchingStudents = data,
                             !.selectedJobForCandidates = jobId]
              ELSE @]
        /\ last' = [Step("fetchMatchingStudents", e, ok, ok,
                         IF ok THEN NoToast ELSE ToastMatchingFailed)
                    EXCEPT !.job = jobId]
    /\ UNCHANGED <<accountVars, store, student, requestLog>>

\* handleJobSubmit: the jobs row, then one job_skills row per selected skill
\* name the skills table holds
handleJobSubmit(e, filled, selectedSkills, contact) ==
    /\ nextJobId <= MaxJobs
    /\ \E okJob \in BOOLEAN, okSkills \in BOOLEAN, okLinks \in BOOLEAN :
        LET created == filled /\ okJob /\ e \in employer_profiles
            jobData == [id |-> nextJobId, employer_id |-> e, status |-> "active",
                        contact_email |-> contact[1],
                        whatsapp_number |-> contact[2],
                        matched_student_id |-> null]
            skillsData == {id \in SkillIds : skills[id] \in selectedSkills}
            linked == created /\ selectedSkills # {} /\ okSkills /\ okLinks
        IN  /\ jobs' = IF created THEN jobs \cup {jobData} ELSE jobs
            /\ nextJobId' = IF created THEN nextJobId + 1 ELSE nextJobId
            /\ job_skills' = IF linked
                             THEN job_skills \cup
                                  {[job_id |-> jobData.id, skill_id |-> id] : id \in skillsData}
                             ELSE job_skills
            /\ employer' = [employer EXCEPT ![e] =
                  IF created
                  THEN [@ EXCEPT !.showJobDialog = FALSE,
                                 !.jobForm = EmptyJobForm,
                                 !.pending = @ \cup {"fetchJobs"}]
                  ELSE @]
            /\ last' = [Step("handleJobSubmit", e,
                             ~filled \/ (okJob /\ (selectedSkills = {} \/
                                                   (okSkills /\ okLinks))),
                             created,
                             IF ~filled THEN ToastFillRequired
                             ELSE IF ~created THEN ToastCreateFailed
                             ELSE ToastPosted)
                        EXCEPT !.job = IF created THEN jobData.id ELSE NoJob,
                               !.skills = selectedSkills]
    /\ UNCHANGED <<accountVars, job_requests, student_skills, employer_profiles, onDelete,
                   nextRequestId, student, requestLog>>

\* the Dialog's onOpenChange and the "Post Job" button: setShowJobDialog
setShowJobDialog(e, open) ==
    /\ employer[e].showJobDialog # open
    /\ employer' = [employer EXCEPT ![e].showJobDialog = open]
    /\ last' = Step("setShowJobDialog", e, TRUE, TRUE, NoToast)
    /\ UNCHANGED <<accountVars, store, student, requestLog>>

\* what can stand in a text field of the form: nothing, or something
FieldValues == {"", "x"}

\* the onChange of the title, description and pay rate inputs
setJobFormField(e, field, value) ==
    /\ employer[e].showJobDialog
    /\ employer[e].jobForm[field] # value
    /\ employer' = [employer EXCEPT ![e].jobForm[field] = value]
    /\ last' = Step("setJobForm", e, TRUE, TRUE, NoToast)
    /\ UNCHANGED <<accountVars, store, student, requestLog>>

\* the onCheckedChange of a skill's checkbox
toggleJobSkill(e, skill) ==
    /\ employer[e].showJobDialog
    /\ employer' = [employer EXCEPT ![e].jobForm.selectedSkills =
                        handleSkillToggle(@, skill)]
    /\ last' = Step("handleSkillToggle", e, TRUE, TRUE, NoToast)
    /\ UNCHANGED <<accountVars, store, student, requestLog>>

\* a test that looks at the title alone
JobFormFilledTitleOnly(form) == form.title # ""

\* !jobForm.title || !jobForm.description || !jobForm.payRate, negated
JobFormFilled(form) == form.title # "" /\ form.description # "" /\ form.payRate # ""

\* the "Post Job" button of the dialog: handleJobSubmit on the form as it is
submitJobForm(e) ==
    /\ employer[e].showJobDialog
    /\ handleJobSubmit(e, JobFormFilled(employer[e].jobForm),
                       Elements(employer[e].jobForm.selectedSkills),
                       <<OwnerEmail, OwnerWhatsapp>>)

\* what a foreign key to jobs leaves of the rows that referenced a jobs row
\* the store has deleted: with no key at all the rows would stay as they are
AfterJobDeletedDangling(rows, jobId, action) == rows

AfterJobDeleted(rows, jobId, action) ==
    CASE action = "cascade" -> {r \in rows : r.job_id # jobId}
      [] action = "set_null" ->
            {IF r.job_id = jobId THEN [r EXCEPT !.job_id = NoJob] ELSE r : r \in rows}
      [] OTHER -> rows

\* handleDeleteJob: confirm(), delete the job_skills rows of the job (the
\* outcome is not looked at), then delete the jobs row
handleDeleteJob(e, jobId) ==
    /\ jobId \in employer[e].jobs
    /\ \E confirmed \in BOOLEAN, okSkills \in BOOLEAN, okJob \in BOOLEAN :
        LET skillsLeft == IF confirmed /\ okSkills
                          THEN {l \in job_skills : l.job_id # jobId}
                          ELSE job_skills
            target == {j \in jobs : j.id = jobId /\ j.employer_id = e}
            refused ==
                /\ target # {}
                /\ \/ /\ onDelete.job_requests = "no_action"
                      /\ \E r \in job_requests : r.job_id = jobId
                   \/ /\ onDelete.job_skills = "no_action"
                      /\ \E l \in skillsLeft : l.job_id = jobId
            error == ~okJob \/ refused
            deleted == confirmed /\ ~error /\ target # {}
        IN  /\ jobs' = IF deleted THEN jobs \ target ELSE jobs
            /\ job_skills' = IF deleted
                             THEN AfterJobDeleted(skillsLeft, jobId, onDelete.job_skills)
                             ELSE skillsLeft
            /\ job_requests' = IF deleted
                               THEN AfterJobDeleted(job_requests, jobId,
                                                    onDelete.job_requests)
                               ELSE job_requests
            /\ employer' = [employer EXCEPT ![e] =
                  IF confirmed /\ ~error
                  THEN [@ EXCEPT !.pending = @ \cup {"fetchJobs"}]
                  ELSE @]
            /\ last' = [Step("handleDeleteJob", e, confirmed /\ okSkills /\ okJob,
                             deleted,
                             IF ~confirmed THEN NoToast
                             ELSE IF error THEN ToastDeleteFailed
                             ELSE ToastDeleted)
                        EXCEPT !.job = jobId,
                               !.links = Cardinality({l \in job_skills :
                                                         l.job_id = jobId}),
                               !.requests = Cardinality({r \in job_requests :
                                                            r.job_id = jobId})]
    /\ UNCHANGED <<accountVars, student_skills, employer_profiles, onDelete, nextJobId,
                   nextRequestId, student, requestLog>>

\* the lowest call number not in flight
FreeCall(e) ==
    CHOOSE c \in 1..MaxInflight :
        /\ \A x \in employer[e].sending : x.call # c
        /\ \A d \in 1..(c - 1) : \E x \in employer[e].sending : x.call = d

\* .select('id').eq('job_id', ...).eq('student_id', ...).single(): data is a
\* row when the answer holds exactly one row, and null otherwise
existingRequest(e, jobId, studentId, okSelect) ==
    okSelect /\ Cardinality({r \in job_requests :
        r.job_id = jobId /\ r.student_id = studentId /\ RlsSelect(e, r)}) = 1

\* sendJobRequest(studentId), up to the answer of the read for an existing
\* request: the insert is a second store call
sendJobRequest(e, studentId) ==
    /\ studentId \in employer[e].matchingStudents
    /\ Cardinality(employer[e].sending) < MaxInflight
    /\ \E okSelect \in BOOLEAN :
        LET jobId == employer[e].selectedJobForCandidates
            found == existingRequest(e, jobId, studentId, okSelect)
        IN  /\ employer' = [employer EXCEPT ![e] =
                  IF jobId = NoJob \/ found
                  THEN @
                  ELSE [@ EXCEPT !.sending = @ \cup
                           {[call |-> FreeCall(e), job_id |-> jobId,
                             student_id |-> studentId]}]]
            /\ last' = [Step("sendJobRequest", e, okSelect, FALSE,
                             IF jobId = NoJob THEN ToastNoJobSelected
                             ELSE IF found THEN ToastAlreadySent
                             ELSE NoToast)
                        EXCEPT !.job = jobId, !.student = studentId]
    /\ UNCHANGED <<accountVars, store, student, requestLog>>

\* sendJobRequest, from the insert on
sendJobRequestInsert(e, call) ==
    /\ call \in employer[e].sending
    /\ nextRequestId <= MaxRequests
    /\ \E netOk \in BOOLEAN :
        LET row == NewRequest(call.job_id, call.student_id)
            inserted == InsertAccepted(e, row, netOk)
        IN  /\ job_requests' = IF inserted THEN job_requests \cup {row} ELSE job_requests
            /\ nextRequestId' = IF inserted THEN nextRequestId + 1 ELSE nextRequestId
            /\ requestLog' = IF inserted
                             THEN requestLog @@
                                  (row.id :> [by |-> e, job_id |-> row.job_id,
                                              student_id |-> row.student_id])
                             ELSE requestLog
            /\ employer' = [employer EXCEPT ![e] =
                  [@ EXCEPT !.sending = @ \ {call},
                            !.pending = IF inserted THEN @ \cup {"fetchJobRequests"}
                                        ELSE @]]
            /\ last' = [Step("sendJobRequestInsert", e, netOk, inserted,
                             IF inserted THEN ToastSent ELSE ToastSendFailed)
                        EXCEPT !.job = call.job_id, !.student = call.student_id,
                               !.request = IF inserted THEN row.id ELSE 0]
    /\ UNCHANGED <<accountVars, jobs, job_skills, student_skills, employer_profiles, onDelete,
                   nextJobId, student>>

\* The requests tab renders Accept and Reject for the requests whose local
\* status is pending.
handleRequestResponse(e, requestId, status) ==
    /\ \E req \in employer[e].jobRequests : req.id = requestId /\ req.status = "pending"
    /\ \E netOk \in BOOLEAN :
        LET hit == netOk /\ UpdateTargets(e, requestId) # {}
        IN  /\ job_requests' = IF netOk THEN UpdateStatus(e, requestId, status)
                               ELSE job_requests
            /\ employer' = [employer EXCEPT ![e] =
                  IF netOk
                  THEN [@ EXCEPT !.pending = @ \cup {"fetchJobRequests"}]
                  ELSE @]
            /\ last' = [Step("handleRequestResponse", e, netOk, hit,
                             IF netOk THEN ToastUpdated ELSE ToastUpdateFailed)
                        EXCEPT !.request = requestId,
                               !.prev = IF hit THEN StatusBefore(e, requestId)
                                        ELSE "none"]
    /\ UNCHANGED <<accountVars, jobs, job_skills, student_skills, employer_profiles, onDelete,
                   nextJobId, nextRequestId, student, requestLog>>

(***************************************************************************)
(* The request workflow: the store holds the employer's active jobs, each  *)
(* requiring "Data Entry"; the student holds "data entry".  Both           *)
(* dashboards have just mounted.                                           *)
(***************************************************************************)
Init ==
    /\ jobs = {[id |-> i, employer_id |-> Owner, status |-> "active",
                contact_email |-> OwnerEmail, whatsapp_number |-> OwnerWhatsapp,
                matched_student_id |-> null]
                  : i \in 1..InitialJobs}
    /\ job_skills = {[job_id |-> i, skill_id |-> 1] : i \in 1..InitialJobs}
    /\ job_requests = {}
    /\ student_skills = {[student_id |-> s, skill_id |-> 2] : s \in Students}
    /\ employer_profiles = Employers
    /\ onDelete = [job_requests |-> "no_action", job_skills |-> "no_action"]
    /\ nextJobId = InitialJobs + 1
    /\ nextRequestId = 1
    /\ student = [s \in Students |-> StudentMounted]
    /\ employer = [e \in Employers |-> EmployerMounted]
    /\ requestLog = <<>>
    /\ last = NoStep
    /\ SettledAccounts

StudentNext(s) ==
    \/ fetchStudentSkills(s)
    \/ StudentFetchJobs(s)
    \/ StudentFetchJobRequests(s)
    \/ \E jobId \in JobIds : handleApplyJob(s, jobId)
    \/ \E requestId \in RequestIds : handleAcceptJobRequest(s, requestId)
    \/ \E requestId \in RequestIds : handleRejectJobRequest(s, requestId)

EmployerNext(e) ==
    \/ EmployerFetchJobs(e)
    \/ EmployerFetchJobRequests(e)
    \/ \E jobId \in JobIds : fetchMatchingStudents(e, jobId)
    \/ \E studentId \in Students : sendJobRequest(e, studentId)
    \/ \E call \in employer[e].sending : sendJobRequestInsert(e, call)
    \/ \E requestId \in RequestIds, status \in {"accepted", "rejected"} :
           handleRequestResponse(e, requestId, status)

Next ==
    \/ \E s \in Students : StudentNext(s)
    \/ \E e \in Employers : EmployerNext(e)

Spec == Init /\ [][Next]_vars


(***************************************************************************)
(* The job listings: the store holds the employer's jobs, with skill links *)
(* or without, some of them with a pending offer to the student; the       *)
(* schema's ON DELETE actions are any.  The employer posts and deletes.    *)
(***************************************************************************)
InitJobs ==
    /\ jobs = {[id |-> i, employer_id |-> Owner, status |-> "active",
                contact_email |-> OwnerEmail, whatsapp_number |-> OwnerWhatsapp,
                matched_student_id |-> null]
                  : i \in 1..InitialJobs}
    /\ \E linkedJobs \in SUBSET (1..InitialJobs) :
         job_skills = [job_id : linkedJobs, skill_id : {1, 3}]
    /\ \E offered \in SUBSET (1..InitialJobs) :
         /\ job_requests = {[id |-> i, job_id |-> i, student_id |-> Viewer,
                             status |-> "pending"] : i \in offered}
         /\ requestLog = [i \in offered |->
                             [by |-> Owner, job_id |-> i, student_id |-> Viewer]]
    /\ student_skills = {[student_id |-> s, skill_id |-> 2] : s \in Students}
    /\ employer_profiles = Employers
    /\ onDelete \in [job_requests : OnDeleteActions, job_skills : OnDeleteActions]
    /\ nextJobId = InitialJobs + 1
    /\ nextRequestId = InitialJobs + 1
    /\ student = [s \in Students |-> StudentMounted]
    /\ employer = [e \in Employers |-> EmployerMounted]
    /\ last = NoStep
    /\ SettledAccounts

NextJobs ==
    \/ EmployerFetchJobs(Owner)
    \/ EmployerFetchJobRequests(Owner)
    \/ \E filled \in BOOLEAN, selectedSkills \in SUBSET SKILLS_LIST :
           handleJobSubmit(Owner, filled, selectedSkills, <<OwnerEmail, OwnerWhatsapp>>)
    \/ \E jobId \in JobIds : handleDeleteJob(Owner, jobId)

SpecJobs == InitJobs /\ [][NextJobs]_vars


(***************************************************************************)
(* The request workflow (claims C1 to C5), under Spec.                     *)
(***************************************************************************)
RespondOps == {"handleAcceptJobRequest", "handleRejectJobRequest",
               "handleRequestResponse"}

RequestsOfPair(jobId, studentId) ==
    {r \in job_requests : r.job_id = jobId /\ r.student_id = studentId}

\* C1: a request's status is one-shot: a respond call that reaches a request
\* finds it pending, so no respond call changes a status that is already
\* accepted or rejected.
C1_StatusOneShot ==
    (last.op \in RespondOps /\ last.ok) => last.prev = "pending"

\* C2: for every (job, student) pair at most one request row persists, and
\* exactly one after a createRequest that inserted.
C2_OneRequestPerPair ==
    /\ \A j \in JobIds : \A s \in Students : Cardinality(RequestsOfPair(j, s)) <= 1
    /\ (last.op \in {"handleApplyJob", "sendJobRequestInsert"} /\ last.ok)
          => Cardinality(RequestsOfPair(last.job, last.student)) = 1

\* C3: respond is only ever performed by the counterparty of the request's
\* initiator: whoever sets the status of a request is not who inserted it.
C3_RespondByCounterparty ==
    (last.op \in RespondOps /\ last.ok) => requestLog[last.request].by # last.user

\* C4: a createRequest that runs while the store already holds a request for
\* the same (job, student) pair inserts nothing and reports that the request
\* was already sent or applied for.
C4_ExistingRequestReported ==
    (/\ last.op \in {"handleApplyJob", "sendJobRequest"}
     /\ last.net
     /\ \E r \in RequestsOfPair(last.job, last.student) : r.id # last.request)
        => (~last.ok /\ last.toast \in {ToastAlreadyApplied, ToastAlreadySent})

\* C5: a student's handleApplyJob for a job with no request of theirs that
\* the store answers inserts a pending request for (job, student).
C5_StudentApplicationInserted ==
    (/\ last.op = "handleApplyJob"
     /\ last.net
     /\ last.toast # ToastAlreadyApplied)
        => \E r \in job_requests :
               /\ r.id = last.request
               /\ r.job_id = last.job
               /\ r.student_id = last.user
               /\ r.status = "pending"

(***************************************************************************)
(* Deleting a job (claim C10), under SpecJobs.                             *)
(***************************************************************************)
\* a handleDeleteJob that was confirmed and whose two store calls were answered
DeleteAnswered == last.op = "handleDeleteJob" /\ last.net

LinksOf(jobId) == {l \in job_skills : l.job_id = jobId}

\* C10, as claimed: deleting a job that has skill links and a pending request
\* removes the job and its links, and the request stays in the store with a
\* job_id that refers to no job.
C10_RequestLeftDangling ==
    (DeleteAnswered /\ last.links > 0 /\ last.requests > 0)
        => /\ ~JobExists(last.job)
           /\ LinksOf(last.job) = {}
           /\ \E r \in job_requests : r.job_id = last.job /\ r.status = "pending"

\* C10, amended: deleting a job that has skill links and a pending request
\* removes its links; no request is ever left with a job_id that refers to no
\* job: either the store refuses to delete the job, which stays, or the request
\* goes, or loses its job_id, together with the job.
C10_LinksRemovedNoDanglingRequest ==
    /\ \A r \in job_requests : r.job_id # NoJob => JobExists(r.job_id)
    /\ DeleteAnswered =>
          /\ LinksOf(last.job) = {}
          /\ last.ok => ~JobExists(last.job)
          /\ (last.requests > 0 /\ onDelete.job_requests = "no_action")
                => (~last.ok /\ last.toast = ToastDeleteFailed
                    /\ \E r \in job_requests : r.job_id = last.job)

\* a job with two links and one pending request was deleted
C10_Witness ==
    /\ DeleteAnswered
    /\ last.ok
    /\ last.links = 2
    /\ last.requests = 1
    /\ ~JobExists(last.job)
    /\ LinksOf(last.job) = {}


(***************************************************************************)
(* Onboarding: the store holds, of each account, a whole profile or none;  *)
(* one browser opens the page.                                             *)
(***************************************************************************)
InitOnboard ==
    /\ \E done \in SUBSET Accounts :
         /\ profiles = {[id |-> a, user_type |-> signupUserType(a),
                         created_at |-> IF a \in Students THEN 1 ELSE 2] : a \in done}
         /\ student_profiles = done \cap Students
         /\ employer_profiles = done \cap Employers
         /\ student_skills = {[student_id |-> s, skill_id |-> 2] : s \in done \cap Students}
    /\ jobs = {}
    /\ job_skills = {}
    /\ job_requests = {}
    /\ onDelete = [job_requests |-> "no_action", job_skills |-> "no_action"]
    /\ nextJobId = 1
    /\ nextRequestId = 1
    /\ student = [s \in Students |-> StudentMounted]
    /\ employer = [e \in Employers |-> EmployerMounted]
    /\ requestLog = <<>>
    /\ last = NoStep
    /\ index = IndexMounted
    /\ setup = SetupIdle
    /\ wizard = WizardMounted
    /\ reply = NoReply

NextOnboard ==
    \/ getSession
    \/ \E session \in Accounts : onAuthStateChange(session)
    \/ handleSignOut
    \/ \E c \in index.checks : checkUserProfileSelect(c)
    \/ \E c \in index.checks : checkUserProfile(c)
    \/ handleNext
    \/ handleBack
    \/ toggleProfileSkill(Typing)
    \/ handleSubmit(Elements(wizard.selectedSkills))
    \/ submitStudentProfile
    \/ submitSkillsSelect
    \/ submitStudentSkills
    \/ submitEmployerProfile

SpecOnboard == InitOnboard /\ [][NextOnboard]_vars

(***************************************************************************)
(* Onboarding (claims C11 to C13, C18, C19), under SpecOnboard.            *)
(***************************************************************************)
SubInsertOps == {"submitStudentProfile", "submitStudentSkills", "submitEmployerProfile"}

HasProfileRow(a) == \E p \in profiles : p.id = a

\* a profiles row without the rows that complete it
PartialProfile(a) ==
    /\ HasProfileRow(a)
    /\ \/ a \notin student_profiles \cup employer_profiles
       \/ a \in student_profiles /\ \A l \in student_skills : l.student_id # a

\* C11: handleSubmit does not roll back.  When the student_profiles, the
\* employer_profiles or the student_skills insert has failed after the
\* profiles insert succeeded, the rows written before it are still in the
\* store (the profiles row, and the student_profiles row when it was the
\* skills that failed), the store holds a partial profile, and the user has
\* been told the creation failed.
C11_NoRollback ==
    (last.op \in SubInsertOps /\ ~last.ok) =>
        /\ HasProfileRow(last.user)
        /\ last.op = "submitStudentSkills" => last.user \in student_profiles
        /\ PartialProfile(last.user)
        /\ last.toast = ToastProfileFailed

C11_Witness ==
    /\ last.op = "submitStudentSkills"
    /\ ~last.ok
    /\ last.user \in student_profiles
    /\ HasProfileRow(last.user)

\* C12: ProfileSetup is shown only when the signed-in account has no
\* profiles row: whenever the page rests on ProfileSetup (no checkUserProfile
\* and no handleSubmit running), the store holds no profiles row of the user.
C12_SetupOnlyWithoutProfile ==
    (Screen = "ProfileSetup" /\ setup.pc = "idle" /\ index.checks = {})
        => ~HasProfileRow(index.user)

\* C13: in every state where no user is signed in, hasProfile and userType
\* are null.
C13_SignedOutCleared ==
    index.user = null => (index.hasProfile = "null" /\ index.userType = "null")

\* C18: there is at most one profiles row per account id, in every state, and
\* no step removes or changes a profiles row (its user_type stays what it
\* was created with), retries after a failed submission included.
C18_ProfileOnceTypeImmutable ==
    /\ [](\A a \in Accounts : Cardinality({p \in profiles : p.id = a}) <= 1)
    /\ [][\A p \in profiles : p \in profiles']_vars

\* a second submission of an account that has its profiles row: the store
\* answered and refused the row
C18_Witness ==
    /\ last.op = "handleSubmit"
    /\ last.net
    /\ ~last.ok
    /\ HasProfileRow(last.user)

\* C19: whenever no handleSubmit is running, every profiles row of type
\* student has its student_profiles row and no employer_profiles row, and
\* every profiles row of type employer has its employer_profiles row and no
\* student_profiles row.
C19_OneSubProfile ==
    setup.pc = "idle" =>
        \A p \in profiles :
            /\ p.user_type = "student" =>
                  (p.id \in student_profiles /\ p.id \notin employer_profiles)
            /\ p.user_type = "employer" =>
                  (p.id \in employer_profiles /\ p.id \notin student_profiles)

(***************************************************************************)
(* Row-level security of job_requests, seen from the store: any account    *)
(* that is signed in may send a SELECT or an UPDATE of job_requests, the    *)
(* dashboards' or its own.  Two more accounts exist, a student the          *)
(* requests are not about and an employer who owns other jobs.  No         *)
(* dashboard takes a step here: the history of a call is its reply.         *)
(***************************************************************************)
Stranger == <<"student", 2>>
Rival == <<"employer", 2>>
AllAccounts == Accounts \cup {Stranger, Rival}

\* from('job_requests').select('*') as uid: the rows a SELECT policy lets
\* through
selectJobRequests(uid) ==
    /\ reply' = [op |-> "select", by |-> uid,
                 rows |-> {r \in job_requests : RlsSelect(uid, r)},
                 status |-> "none", before |-> {}]
    /\ UNCHANGED <<store, student, employer, requestLog, last, profiles,
                   student_profiles, index, setup, wizard>>

\* from('job_requests').update({status}).eq('id', requestId) as uid.  The
\* reply keeps the rows of that id and, of them, the rows the update changed.
updateJobRequest(uid, requestId, status) ==
    /\ job_requests' = UpdateStatus(uid, requestId, status)
    /\ reply' = [op |-> "update", by |-> uid,
                 rows |-> {r \in job_requests : r.id = requestId},
                 status |-> status,
                 before |-> job_requests \ job_requests']
    /\ UNCHANGED <<jobs, job_skills, student_skills, employer_profiles, onDelete,
                   nextJobId, nextRequestId, student, employer, requestLog, last,
                   profiles, student_profiles, index, setup, wizard>>

\* The jobs are the two employers' in turn; every request id is a pending
\* request of some job, and the requests are the two students' in turn.
InitAccess ==
    /\ jobs = {[id |-> i, employer_id |-> IF i % 2 = 1 THEN Owner ELSE Rival,
                status |-> "active", contact_email |-> OwnerEmail,
                whatsapp_number |-> OwnerWhatsapp,
                matched_student_id |-> null] : i \in JobIds}
    /\ job_skills = {}
    /\ \E of \in [RequestIds -> JobIds] :
         job_requests = {[id |-> i, job_id |-> of[i],
                          student_id |-> IF i % 2 = 1 THEN Viewer ELSE Stranger,
                          status |-> "pending"] : i \in RequestIds}
    /\ student_skills = {}
    /\ employer_profiles = {Owner, Rival}
    /\ student_profiles = {Viewer, Stranger}
    /\ profiles = {[id |-> a, user_type |-> a[1], created_at |-> a[2]] : a \in AllAccounts}
    /\ onDelete = [job_requests |-> "no_action", job_skills |-> "no_action"]
    /\ nextJobId = MaxJobs + 1
    /\ nextRequestId = MaxRequests + 1
    /\ student = [s \in Students |-> StudentMounted]
    /\ employer = [e \in Employers |-> EmployerMounted]
    /\ requestLog = <<>>
    /\ last = NoStep
    /\ index = IndexMounted
    /\ setup = SetupIdle
    /\ wizard = WizardMounted
    /\ reply = NoReply

NextAccess ==
    \/ \E uid \in AllAccounts : selectJobRequests(uid)
    \/ \E uid \in AllAccounts, requestId \in RequestIds, status \in request_status :
           updateJobRequest(uid, requestId, status)

SpecAccess == InitAccess /\ [][NextAccess]_vars

\* the student a request is about, or the employer of the job it references
PartyTo(uid, r) ==
    \/ r.student_id = uid
    \/ \E j \in jobs : j.id = r.job_id /\ j.employer_id = uid

\* C14: a read of job_requests returns to an account only rows it is a party
\* to (the student of the row, or the employer who owns the row's job), and
\* an update changes only rows the account that sent it is a party to.
C14_RowLevelAuthorization ==
    /\ reply.op = "select" => \A r \in reply.rows : PartyTo(reply.by, r)
    /\ reply.op = "update" => \A r \in reply.before : PartyTo(reply.by, r)

\* an account that is no party to a request has sent an update that would
\* have changed it, and the store changed nothing
C14_Witness ==
    /\ reply.op = "update"
    /\ \E r \in reply.rows : ~PartyTo(reply.by, r) /\ r.status # reply.status
    /\ reply.before = {}

(***************************************************************************)
(* The inbox: the store holds the employer's jobs, posted with any contact  *)
(* fields, some of them offered to the student; the ON DELETE action of     *)
(* job_requests.job_id is any.  The student reads the inbox and answers;    *)
(* the employer deletes jobs.                                               *)
(***************************************************************************)
InitInbox ==
    /\ \E contact \in [1..InitialJobs -> JobFormContacts] :
         jobs = {[id |-> i, employer_id |-> Owner, status |-> "active",
                  contact_email |-> contact[i][1],
                  whatsapp_number |-> contact[i][2],
                  matched_student_id |-> null] : i \in 1..InitialJobs}
    /\ job_skills = {}
    /\ \E offered \in SUBSET (1..InitialJobs) :
         /\ job_requests = {[id |-> i, job_id |-> i, student_id |-> Viewer,
                             status |-> "pending"] : i \in offered}
         /\ requestLog = [i \in offered |->
                             [by |-> Owner, job_id |-> i, student_id |-> Viewer]]
    /\ student_skills = {[student_id |-> s, skill_id |-> 2] : s \in Students}
    /\ employer_profiles = Employers
    /\ \E action \in OnDeleteActions :
         onDelete = [job_requests |-> action, job_skills |-> "no_action"]
    /\ nextJobId = InitialJobs + 1
    /\ nextRequestId = InitialJobs + 1
    /\ student = [s \in Students |-> StudentMounted]
    /\ employer = [e \in Employers |-> EmployerMounted]
    /\ last = NoStep
    /\ SettledAccounts

NextInbox ==
    \/ EmployerFetchJobs(Owner)
    \/ \E jobId \in JobIds : handleDeleteJob(Owner, jobId)
    \/ StudentFetchJobRequests(Viewer)
    \/ \E requestId \in RequestIds : handleAcceptJobRequest(Viewer, requestId)
    \/ \E requestId \in RequestIds : handleRejectJobRequest(Viewer, requestId)

SpecInbox == InitInbox /\ [][NextInbox]_vars

(***************************************************************************)
(* Contact channels in the inbox (claim C15), under SpecInbox.             *)
(***************************************************************************)
Inbox == student[Viewer].jobRequests

ErrorToasts ==
    {ToastApplyFailed, ToastSendFailed, ToastFetchJobsFailed, ToastAcceptFailed,
     ToastRejectFailed, ToastUpdateFailed, ToastDeleteFailed, ToastCreateFailed,
     ToastMatchingFailed, ToastProfileFailed}

\* the steps of the job listings that only call the store
StoreSteps == {"handleJobSubmit", "fetchJobs", "fetchJobRequests"}

\* C16: a step one of whose store calls returned an error has shown an error
\* notification, and has not reported success.  Under SpecJobs.
C16_ErrorsSurfaced ==
    (last.op \in StoreSteps /\ ~last.net) => last.toast \in ErrorToasts

\* the part of a dashboard's state that is what it shows of the store
EmployerView(e) ==
    <<employer[e].jobs, employer[e].jobRequests, employer[e].matchingStudents,
      employer[e].selectedJobForCandidates>>

StudentView(s) == <<student[s].jobs, student[s].jobRequests>>

\* C17: a step one of whose store calls failed leaves the jobs, the
\* jobRequests, the matchingStudents and the selected job of both dashboards
\* as they were.  Under Spec.
C17_FailedStepKeepsView ==
    [][~last'.net =>
          /\ \A e \in Employers :
                <<employer'[e].jobs, employer'[e].jobRequests,
                  employer'[e].matchingStudents,
                  employer'[e].selectedJobForCandidates>> = EmployerView(e)
          /\ \A s \in Students :
                <<student'[s].jobs, student'[s].jobRequests>> = StudentView(s)]_vars

(***************************************************************************)
(* The status of a request (claim C20).  Both dashboards have loaded: the  *)
(* student's browse list shows the jobs (the inbox has not yet answered),  *)
(* the employer has opened the candidates of the first job and the student *)
(* is one of them.  Every step that writes job_requests, and the fetches   *)
(* of job_requests.                                                        *)
(***************************************************************************)
InitStatus ==
    /\ jobs = {[id |-> i, employer_id |-> Owner, status |-> "active",
                contact_email |-> OwnerEmail, whatsapp_number |-> OwnerWhatsapp,
                matched_student_id |-> null]
                  : i \in 1..InitialJobs}
    /\ job_skills = {[job_id |-> i, skill_id |-> 1] : i \in 1..InitialJobs}
    /\ job_requests = {}
    /\ student_skills = {[student_id |-> s, skill_id |-> 2] : s \in Students}
    /\ employer_profiles = Employers
    /\ onDelete = [job_requests |-> "no_action", job_skills |-> "no_action"]
    /\ nextJobId = InitialJobs + 1
    \* the request ids start at 2: one insert fewer than MaxRequests fits
    /\ nextRequestId = 2
    /\ student = [s \in Students |->
                     [StudentMounted EXCEPT !.jobs = 1..InitialJobs,
                                            !.studentSkills = studentSkillNames(s),
                                            !.isLoading = FALSE,
                                            !.pending = {"fetchJobRequests"}]]
    /\ employer = [e \in Employers |->
                      [EmployerMounted EXCEPT !.jobs = 1..InitialJobs,
                                             !.matchingStudents = Students,
                                             !.selectedJobForCandidates = 1,
                                             !.isLoading = FALSE, !.pending = {}]]
    /\ requestLog = <<>>
    /\ last = NoStep
    /\ SettledAccounts

NextStatus ==
    \/ \E jobId \in JobIds : handleApplyJob(Viewer, jobId)
    \/ StudentFetchJobRequests(Viewer)
    \/ \E requestId \in RequestIds : handleAcceptJobRequest(Viewer, requestId)
    \/ \E requestId \in RequestIds : handleRejectJobRequest(Viewer, requestId)
    \/ sendJobRequest(Owner, Viewer)
    \/ \E call \in employer[Owner].sending : sendJobRequestInsert(Owner, call)
    \/ EmployerFetchJobRequests(Owner)
    \/ \E requestId \in RequestIds, status \in {"accepted", "rejected"} :
           handleRequestResponse(Owner, requestId, status)

SpecStatus == InitStatus /\ [][NextStatus]_vars

InsertOps == {"handleApplyJob", "sendJobRequestInsert"}

\* C20: the status of every job_requests row is pending, accepted or
\* rejected; the row a step has just inserted is pending; the row a step has
\* just answered is accepted or rejected, never pending again.
C20_StatusLifecycle ==
    /\ \A r \in job_requests : r.status \in request_status
    /\ (last.op \in InsertOps /\ last.ok) =>
          \E r \in job_requests : r.id = last.request /\ r.status = "pending"
    /\ (last.op \in RespondOps /\ last.ok) =>
          \A r \in job_requests :
              r.id = last.request => r.status \in {"accepted", "rejected"}

\* a request was inserted and has been answered since
C20_Witness ==
    /\ last.op \in RespondOps
    /\ last.ok
    /\ \E r \in job_requests : r.id = last.request /\ r.status # "pending"

(***************************************************************************)
(* Posting a job and its skill links                                       *)
(***************************************************************************)
\* C21: whenever handleJobSubmit shows "Job posted successfully!", the job it
\* stored is active and has one job_skills link for every skill name that
\* was selected in the form.
C21_PostedJobLinked ==
    (last.op = "handleJobSubmit" /\ last.toast = ToastPosted) =>
        /\ \E j \in jobs : j.id = last.job /\ j.status = "active"
        /\ \A name \in last.skills :
              \E l \in job_skills : l.job_id = last.job /\ skills[l.skill_id] = name

(***************************************************************************)
(* The student's dashboard leaving its loading screen.  Every store call   *)
(* a handler awaits is answered in the end, with data or with an error.    *)
(***************************************************************************)
FairBrowse ==
    /\ SpecBrowse
    /\ WF_vars(fetchStudentSkills(Viewer))
    /\ WF_vars(StudentFetchJobs(Viewer))
    /\ WF_vars(StudentFetchJobRequests(Viewer))

\* C22: the student's dashboard eventually leaves its loading state, whatever
\* skills the student holds and whatever the store answers.
C22_LeavesLoading == <>(~student[Viewer].isLoading)

(***************************************************************************)
(* The dashboard and the account that is signed in, under SpecOnboard.     *)
(***************************************************************************)
\* C23: whenever StudentDashboard or EmployerDashboard is rendered for the
\* signed-in user, userType is the user_type of that user's own profiles row.
C23_DashboardOfSignedInAccount ==
    Screen \in {"StudentDashboard", "EmployerDashboard"} =>
        index.userType = ProfileOf(index.user)

(***************************************************************************)
(* Answering a request.  The store holds the employer's active jobs and,   *)
(* under every request id, a pending offer to the student, the jobs taken  *)
(* in turn (so that a job has more than one request as soon as there are   *)
(* more request ids than jobs); both dashboards have loaded and show the   *)
(* offers.                                                                 *)
(***************************************************************************)
JobOfRequest(i) == ((i - 1) % InitialJobs) + 1

InitRespond ==
    /\ jobs = {[id |-> i, employer_id |-> Owner, status |-> "active",
                contact_email |-> OwnerEmail, whatsapp_number |-> OwnerWhatsapp,
                matched_student_id |-> null]
                  : i \in 1..InitialJobs}
    /\ job_skills = {[job_id |-> i, skill_id |-> 1] : i \in 1..InitialJobs}
    /\ job_requests = {[id |-> i, job_id |-> JobOfRequest(i), student_id |-> Viewer,
                         status |-> "pending"] : i \in RequestIds}
    /\ student_skills = {[student_id |-> s, skill_id |-> 2] : s \in Students}
    /\ employer_profiles = Employers
    /\ onDelete = [job_requests |-> "no_action", job_skills |-> "no_action"]
    /\ nextJobId = InitialJobs + 1
    /\ nextRequestId = MaxRequests + 1
    /\ student = [s \in Students |->
                     [StudentMounted EXCEPT !.jobs = 1..InitialJobs,
                                            !.jobRequests = InboxSnapshot(job_requests),
                                            !.studentSkills = studentSkillNames(s),
                                            !.isLoading = FALSE, !.pending = {}]]
    /\ employer = [e \in Employers |->
                      [EmployerMounted EXCEPT !.jobs = 1..InitialJobs,
                                             !.jobRequests = Snapshot(job_requests),
                                             !.isLoading = FALSE, !.pending = {}]]
    /\ requestLog = [i \in RequestIds |->
                        [by |-> Owner, job_id |-> JobOfRequest(i), student_id |-> Viewer]]
    /\ last = NoStep
    /\ SettledAccounts

NextRespond ==
    \/ StudentFetchJobRequests(Viewer)
    \/ \E requestId \in RequestIds : handleAcceptJobRequest(Viewer, requestId)
    \/ \E requestId \in RequestIds : handleRejectJobRequest(Viewer, requestId)
    \/ EmployerFetchJobRequests(Owner)
    \/ \E requestId \in RequestIds, status \in {"accepted", "rejected"} :
           handleRequestResponse(Owner, requestId, status)

SpecRespond == InitRespond /\ [][NextRespond]_vars

\* C24: a step that answers a request (handleRequestResponse,
\* handleAcceptJobRequest, handleRejectJobRequest) leaves the jobs table as
\* it was (status and matched_student_id of the referenced job included) and
\* every other request as it was, the other requests of the same job too; of
\* the request it answers it changes at most the status.
C24_RespondChangesOnlyStatus ==
    [][last'.op \in RespondOps =>
          /\ jobs' = jobs
          /\ \A r \in job_requests : r.id # last'.request => r \in job_requests'
          /\ \A r \in job_requests' : r.id # last'.request => r \in job_requests
          /\ \A r \in job_requests : r.id = last'.request =>
                \E q \in job_requests' : q = [r EXCEPT !.status = q.status]]_vars

\* a request has just been accepted; its job is still active and unmatched,
\* and another request of the same job is still pending
C24_Witness ==
    /\ last.op \in RespondOps
    /\ last.ok
    /\ \E r \in job_requests :
          /\ r.id = last.request
          /\ r.status = "accepted"
          /\ \E j \in jobs : j.id = r.job_id /\ j.status = "active"
                                /\ j.matched_student_id = null
          /\ \E o \in job_requests :
                o.id # r.id /\ o.job_id = r.job_id /\ o.status = "pending"

(***************************************************************************)
(* Deleting a job, under SpecJobs.                                         *)
(***************************************************************************)
\* C25: when handleDeleteJob reports that the job could not be deleted (the
\* delete of the jobs row failed or was refused), the job_skills rows of the
\* job are as many as before the step.
C25_DeleteAllOrNothing ==
    (last.op = "handleDeleteJob" /\ last.toast = ToastDeleteFailed) =>
        Cardinality(LinksOf(last.job)) = last.links

(***************************************************************************)
(* The job form.  The employer's dashboard has loaded; the employer opens  *)
(* and closes the dialog, types in the required fields, ticks skills and   *)
(* submits.                                                                *)
(***************************************************************************)
InitPost ==
    /\ jobs = {[id |-> i, employer_id |-> Owner, status |-> "active",
                contact_email |-> OwnerEmail, whatsapp_number |-> OwnerWhatsapp,
                matched_student_id |-> null]
                  : i \in 1..InitialJobs}
    /\ job_skills = {[job_id |-> i, skill_id |-> 1] : i \in 1..InitialJobs}
    /\ job_requests = {}
    /\ student_skills = {[student_id |-> s, skill_id |-> 2] : s \in Students}
    /\ employer_profiles = Employers
    /\ onDelete = [job_requests |-> "no_action", job_skills |-> "no_action"]
    /\ nextJobId = InitialJobs + 1
    /\ nextRequestId = 1
    /\ student = [s \in Students |-> StudentMounted]
    /\ employer = [e \in Employers |->
                      [EmployerMounted EXCEPT !.jobs = 1..InitialJobs,
                                             !.isLoading = FALSE, !.pending = {}]]
    /\ requestLog = <<>>
    /\ last = NoStep
    /\ SettledAccounts

NextPost ==
    \/ \E open \in BOOLEAN : setShowJobDialog(Owner, open)
    \/ \E field \in {"title", "description", "payRate"}, value \in FieldValues :
           setJobFormField(Owner, field, value)
    \/ \E skill \in SKILLS_LIST : toggleJobSkill(Owner, skill)
    \/ submitJobForm(Owner)
    \/ EmployerFetchJobs(Owner)

SpecPost == InitPost /\ [][NextPost]_vars

\* the jobs rows of a step
NewJobs == jobs' \ jobs

\* the form lacks a title, a description or a pay rate
LacksRequired(form) == form.title = "" \/ form.description = "" \/ form.payRate = ""

\* a handleJobSubmit on a form that lacks a required field writes nothing to
\* the store and leaves the dashboard (form, dialog, job list) as it was
RejectedFormUntouched ==
    LacksRequired(employer[Owner].jobForm) =>
        (store' = store /\ employer' = employer /\ last'.toast = ToastFillRequired)

\* C26, as claimed: handleJobSubmit with an empty title, description or pay
\* rate writes nothing and leaves form, dialog and job list unchanged;
\* otherwise it inserts exactly one job, owned by the employer, active.
C26_FilledFormInsertsOneJob ==
    [][last'.op = "handleJobSubmit" =>
          /\ RejectedFormUntouched
          /\ ~LacksRequired(employer[Owner].jobForm) =>
                /\ jobs \subseteq jobs'
                /\ Cardinality(NewJobs) = 1
                /\ \A j \in NewJobs : j.employer_id = Owner /\ j.status = "active"]_vars

\* C26: handleJobSubmit with an empty title, description or pay rate writes
\* nothing and leaves form, dialog and job list unchanged; otherwise it sends
\* one insert: when the store takes it, exactly one job is added, owned by
\* the employer and active; when the store does not, no job and no skill
\* link is added, the form and the dialog stay, and "Failed to create job"
\* is shown.
C26_FilledFormInsertsAtMostOneJob ==
    [][last'.op = "handleJobSubmit" =>
          /\ RejectedFormUntouched
          /\ ~LacksRequired(employer[Owner].jobForm) =>
                /\ jobs \subseteq jobs'
                /\ \A j \in NewJobs : j.employer_id = Owner /\ j.status = "active"
                /\ IF last'.ok
                   THEN Cardinality(NewJobs) = 1
                   ELSE /\ store' = store
                        /\ employer' = employer
                        /\ last'.toast = ToastCreateFailed]_vars

\* a filled form has been submitted and the store took the job: the dialog
\* is closed and the form is empty again
C26_Witness ==
    /\ last.op = "handleJobSubmit"
    /\ last.ok
    /\ last.skills # {}
    /\ \E j \in jobs : j.id = last.job /\ j.employer_id = Owner /\ j.status = "active"
    /\ ~employer[Owner].showJobDialog
    /\ employer[Owner].jobForm = EmptyJobForm

(***************************************************************************)
(* The filter as a function of the two lists of names, under SpecBrowse.   *)
(***************************************************************************)
\* every letter of a name in the other case
swapCase(str) ==
    [i \in 1..Len(str) |-> IF toLowerCaseChar(str[i]) = str[i]
                           THEN toUpperCaseChar(str[i])
                           ELSE toLowerCaseChar(str[i])]

\* a name written in another case
CaseVariants(name) == {name, toLowerCase(name), toUpperCase(name), swapCase(name)}

\* the names of the skills table and their case variants
AllNames == UNION {CaseVariants(skills[id]) : id \in SkillIds}

\* C27: the filter is monotone in the student's skills and does not look at
\* letter case.  For the list a fetchJobs has just shown: with one more name
\* in the student's list every job shown is still shown, and with a name of
\* the student's list or of a job's skills written in another case the jobs
\* shown are the same.
C27_MonotoneCaseInsensitive ==
    \A s \in Students :
        JobsFetched(s) =>
            LET S == student[s].studentSkills
            IN  /\ student[s].jobs = matchedJobs(S)
                /\ \A extra \in AllNames :
                      student[s].jobs \subseteq matchedJobs(S \cup {extra})
                /\ \A n \in S : \A v \in CaseVariants(n) :
                      matchedJobs((S \ {n}) \cup {v}) = student[s].jobs
                /\ \A j \in SelectActiveJobs : \A n \in jobSkills(j.id) :
                      \A v \in CaseVariants(n) :
                          hasMatchingSkill((jobSkills(j.id) \ {n}) \cup {v}, S)
                              <=> Shown(s, j)

\* a job is shown for a skill the student holds under a name that differs
\* from the job's in case only, and the student does not hold every skill
C27_Witness ==
    /\ JobsFetched(Viewer)
    /\ \E j \in jobs :
          /\ Shown(Viewer, j)
          /\ jobSkills(j.id) \cap student[Viewer].studentSkills = {}
    /\ \E extra \in AllNames : extra \notin student[Viewer].studentSkills

(***************************************************************************)
(* The profile wizard.  An account without a profile is signed in and the  *)
(* page has settled on ProfileSetup; the user goes back and forth through  *)
(* the steps, ticks skills and submits.                                    *)
(***************************************************************************)
InitWizard ==
    /\ profiles = {}
    /\ student_profiles = {}
    /\ employer_profiles = {}
    /\ student_skills = {}
    /\ jobs = {}
    /\ job_skills = {}
    /\ job_requests = {}
    /\ onDelete = [job_requests |-> "no_action", job_skills |-> "no_action"]
    /\ nextJobId = 1
    /\ nextRequestId = 1
    /\ student = [s \in Students |-> StudentMounted]
    /\ employer = [e \in Employers |-> EmployerMounted]
    /\ requestLog = <<>>
    /\ last = NoStep
    /\ \E a \in Accounts :
         index = [IndexMounted EXCEPT !.user = a, !.hasProfile = "false",
                                      !.isLoading = FALSE, !.sessionChecked = TRUE]
    /\ setup = SetupIdle
    /\ wizard = WizardMounted
    /\ reply = NoReply

NextWizard ==
    \/ handleNext
    \/ handleBack
    \/ \E skill \in SKILLS_LIST : toggleProfileSkill(skill)
    \/ handleSubmit(Elements(wizard.selectedSkills))
    \/ submitStudentProfile
    \/ submitSkillsSelect
    \/ submitStudentSkills
    \/ submitEmployerProfile
    \/ \E c \in index.checks : checkUserProfileSelect(c)
    \/ \E c \in index.checks : checkUserProfile(c)

SpecWizard == InitWizard /\ [][NextWizard]_vars

C29_ToggleInvolution ==
    LET list == wizard.selectedSkills
    IN  /\ \A i \in 1..Len(list) : \A j \in 1..Len(list) : i # j => list[i] # list[j]
        /\ \A skill \in SKILLS_LIST :
              LET once == handleSkillToggle(list, skill)
                  twice == handleSkillToggle(once, skill)
              IN  /\ Elements(twice) = Elements(list)
                  /\ skill \in Elements(once) <=> skill \notin Elements(list)
                  /\ \A other \in SKILLS_LIST \ {skill} :
                        other \in Elements(once) <=> other \in Elements(list)

\* both skills are selected and a checkbox was the last thing clicked
C29_Witness ==
    /\ last.op = "handleSkillToggle"
    /\ Len(wizard.selectedSkills) = 2

====
